---------------------------- MODULE Spec2Model ----------------------------
(***************************************************************************)
(* The SBI server of the UDR network function (internal/sbi/server.go):    *)
(* construction (NewServer, newRouter, bindRouter), the asynchronous       *)
(* accept loop (Run, serve, unsecureServe, secureServe), the bounded       *)
(* shutdown (Shutdown, shutdownHttpServer) and the request pipeline that   *)
(* newRouter installs (authorization middleware, then the route handler).  *)
(*                                                                         *)
(* The http.Server behind s.httpServer is modelled at the level of its     *)
(* documented contract: ListenAndServe/ListenAndServeTLS return            *)
(* ErrServerClosed once Shutdown was called; Shutdown closes the tracked   *)
(* listeners and the idle connections, then waits for the active ones      *)
(* until the context expires, and then returns the context's error         *)
(* WITHOUT closing the connections that are still active.  A connection is *)
(* either idle (keep-alive, no request) or active (a request in flight).   *)
(* Requests are served on connections that the http.Server tracks (a       *)
(* hijacked connection is outside Shutdown's wait and is not modelled).    *)
(* An unrecovered panic ends the process: the operating system closes its  *)
(* sockets and connections, and no action is enabled after it.             *)
(***************************************************************************)
EXTENDS Integers, Sequences, FiniteSets

\* ---- bounds of the model ------------------------------------------------
MaxRuns == 2          \* calls of Run
MaxConns == 2         \* connections the listener can hold at once
MaxRequests == 2      \* requests received over the life of the server
MaxShutdowns == 2     \* calls of Shutdown

Tasks == 1..MaxRuns
Conns == 1..MaxConns

\* ---- program constants --------------------------------------------------
shutdownTimeout == 2
UdrDefaultCertPemPath == "cert/udr.pem"
UdrDefaultPrivateKeyPath == "cert/udr.key"

\* errors that serve() can end with
ErrServerClosed == "ErrServerClosed"
InvalidScheme == "InvalidScheme"
BindError == "BindError"
TLSFileError == "TLSFileError"
TransportError == "TransportError"
DeadlineExceeded == "DeadlineExceeded"

Schemes == {"http", "https", "ftp"}
CfgPaths == {"", "cfg"}

VARIABLES
    scheme,         \* sbiConfig.Scheme
    tlsPem,         \* sbiConfig.Tls.Pem
    tlsKey,         \* sbiConfig.Tls.Key
    phase,          \* "new", "constructed" (NewServer returned), "initPanic"
    httpServer,     \* s.httpServer: "nil" or "srv"
    router,         \* s.router: the handler chain of a data-repository route
    inShutdown,     \* http.Server.inShutdown
    pc,             \* accept-loop task -> position
    ln,             \* accept-loop task -> its listening socket
    taskErr,        \* accept-loop task -> the error serve() returned
    usedCert,       \* the <<cert, key>> paths handed to ListenAndServeTLS
    wg,             \* the caller's sync.WaitGroup counter
    panicked,       \* "none", "NewServer", "AcceptLoop", "Shutdown"
    conn,           \* connection -> "closed", "idle", "active"
    req,            \* connection -> the request in flight on it
    nreq,           \* requests received so far
    sd,             \* the Shutdown caller: "idle" or "waiting"
    sdCalls,        \* calls of Shutdown so far
    sdReturns,      \* returns of Shutdown so far
    sdAttempts,     \* calls of httpServer.Shutdown so far
    sdErrLogged,    \* "HTTP server shutdown failed" lines logged
    sdElapsed,      \* time units the pending Shutdown has waited
    sdLast          \* facts about the latest Shutdown call

cfgVars == <<scheme, tlsPem, tlsKey>>
srvVars == <<phase, httpServer, router, inShutdown>>
taskVars == <<pc, ln, taskErr, usedCert, wg>>
connVars == <<conn, req, nreq>>
sdVars == <<sd, sdCalls, sdReturns, sdAttempts, sdErrLogged, sdElapsed, sdLast>>
vars == <<cfgVars, srvVars, taskVars, connVars, sdVars, panicked>>

NoReq == [matched |-> FALSE, allow |-> FALSE, idx |-> 0, running |-> FALSE,
          authDone |-> FALSE, calls |-> 0, status |-> 0]
NoShutdown == [err |-> "none", inflight |-> FALSE, serving |-> FALSE,
               elapsed |-> 0, held |-> FALSE, logged |-> FALSE]

Alive == panicked = "none"

\* ---- construction ---------------------------------------------------------

\* newRouter: the chain gin runs for a route of the data-repository group.
\* Use() precedes AddService(), so every route of the group carries the
\* authorization middleware in front of its handler.
newRouterNoAuth == <<"handler">>
newRouterNoRoutes == <<"auth">>
newRouter == <<"auth", "handler">>

\* bindRouter: httpwrapper.NewHttp2Server(bindAddr, tlsKeyLogPath, router).
\* It builds the http.Server value; it opens no socket and never reads the
\* scheme.  It fails only when the key-log file cannot be opened.
bindRouter(path, ok) ==
    IF path # "" /\ ~ok
    THEN [server |-> "nil", err |-> "KeyLogError"]
    ELSE [server |-> "srv", err |-> "nil"]

\* NewServer, lines 44-47: a bind error is a panic.
NewServerReturnsAnyway(err) == FALSE
NewServerPanics(err) == err # "nil"

\* keyLogOk: whether the environment lets the key-log file be opened.
NewServer(tlsKeyLogPath, keyLogOk) ==
    /\ phase = "new"
    /\ Alive
    /\ router' = newRouter
    /\ LET r == bindRouter(tlsKeyLogPath, keyLogOk)
       IN  /\ httpServer' = r.server
           /\ IF NewServerPanics(r.err)
              THEN phase' = "initPanic" /\ panicked' = "NewServer"
              ELSE phase' = "constructed" /\ UNCHANGED panicked
    /\ UNCHANGED <<cfgVars, inShutdown, taskVars, connVars, sdVars>>

\* ---- the accept-loop task ---------------------------------------------------

\* serve: the switch on sbiConfig.Scheme.
serveDefaultUnsecure(sch) ==
    CASE sch = "https" -> "secure"
      [] OTHER -> "unsecure"
serve(sch) ==
    CASE sch = "http" -> "unsecure"
      [] sch = "https" -> "secure"
      [] OTHER -> "invalid"

\* secureServe: the certificate and key paths handed to ListenAndServeTLS.
pemPath(cfg) == IF cfg = "" THEN UdrDefaultCertPemPath ELSE cfg
keyPathFromPemDefault(cfg) == IF cfg = "" THEN UdrDefaultCertPemPath ELSE cfg
keyPath(cfg) == IF cfg = "" THEN UdrDefaultPrivateKeyPath ELSE cfg
secureServe == <<pemPath(tlsPem), keyPath(tlsKey)>>

\* Run, line 64: which results of serve() are escalated with Panicf.
EscalatesAlways(err) == TRUE
EscalatesNotBind(err) == err \notin {ErrServerClosed, BindError, TLSFileError}
EscalatesOnlyTransport(err) == err \notin {ErrServerClosed, InvalidScheme}
Escalates(err) == err # ErrServerClosed

\* Run, line 59 and line 61: wg.Add(1) before the goroutine, wg.Done deferred.
wgAddNone(n) == n
wgAdd(n) == n + 1
wgDone(n) == n - 1

\* Run, line 61: wg.Done is deferred, so it runs on every way out of the
\* goroutine, the panic of line 65 included.
wgDoneNotDeferred(n, err) == IF err # ErrServerClosed THEN n ELSE wgDone(n)
wgAfterExit(n, err) == wgDone(n)

Spawned(t) == pc[t] # "unspawned"
Ended(t) == pc[t] \in {"exited", "panicked"}
Listening(t) == pc[t] = "accepting" /\ ln[t] = "tracked"
AddressInUse == \E u \in Tasks : ln[u] \in {"open", "tracked"}

Run ==
    /\ phase = "constructed"
    /\ Alive
    /\ \E t \in Tasks :
        /\ pc[t] = "unspawned"
        /\ \A u \in Tasks : u < t => Spawned(u)
        /\ pc' = [pc EXCEPT ![t] = "spawned"]
    /\ wg' = wgAdd(wg)
    /\ UNCHANGED <<cfgVars, srvVars, ln, taskErr, usedCert, connVars, sdVars,
                   panicked>>

\* The goroutine of Run ends: serve() returned err, the deferred wg.Done runs,
\* and an escalated error panics.  lnAfter is the task's socket afterwards.
ProcessExit ==
    /\ conn' = [c \in Conns |-> "closed"]
    /\ req' = [c \in Conns |-> NoReq]

SocketsAfterExit(l) ==
    [t \in Tasks |-> IF l[t] = "none" THEN "none" ELSE "closed"]

TaskEnd(t, err, lnAfter) ==
    /\ taskErr' = [taskErr EXCEPT ![t] = err]
    /\ wg' = wgAfterExit(wg, err)
    /\ IF Escalates(err)
       THEN /\ pc' = [pc EXCEPT ![t] = "panicked"]
            /\ panicked' = "AcceptLoop"
            /\ ln' = SocketsAfterExit([ln EXCEPT ![t] = lnAfter])
            /\ ProcessExit
       ELSE /\ pc' = [pc EXCEPT ![t] = "exited"]
            /\ ln' = [ln EXCEPT ![t] = lnAfter]
            /\ UNCHANGED <<panicked, conn, req>>

\* serve() up to net.Listen: the scheme switch, the path resolution of
\* secureServe, the shuttingDown test that opens ListenAndServe[TLS], the bind.
\* portFree: whether the environment lets the address be bound.
ServeEnter(t, portFree) ==
    /\ Alive
    /\ pc[t] = "spawned"
    /\ LET kind == serve(scheme)
       IN  /\ usedCert' = IF kind = "secure" THEN secureServe ELSE usedCert
           /\ IF kind = "invalid"
              THEN TaskEnd(t, InvalidScheme, ln[t])
              ELSE IF inShutdown
              THEN TaskEnd(t, ErrServerClosed, ln[t])
              ELSE IF ~portFree \/ AddressInUse
              THEN TaskEnd(t, BindError, ln[t])
              ELSE /\ pc' = [pc EXCEPT ![t] = "bound"]
                   /\ ln' = [ln EXCEPT ![t] = "open"]
                   /\ UNCHANGED <<taskErr, wg, panicked, conn, req>>
    /\ UNCHANGED <<cfgVars, srvVars, nreq, sdVars>>

\* After net.Listen: ServeTLS loads the key pair, Serve registers the listener
\* (trackListener), which fails once Shutdown has been called.
\* certOk: whether the certificate and key files load.
ServeSetup(t, certOk) ==
    /\ Alive
    /\ pc[t] = "bound"
    /\ IF serve(scheme) = "secure" /\ ~certOk
       THEN TaskEnd(t, TLSFileError, "closed")
       ELSE IF inShutdown
       THEN TaskEnd(t, ErrServerClosed, "closed")
       ELSE /\ pc' = [pc EXCEPT ![t] = "accepting"]
            /\ ln' = [ln EXCEPT ![t] = "tracked"]
            /\ UNCHANGED <<taskErr, wg, panicked, conn, req>>
    /\ UNCHANGED <<cfgVars, srvVars, usedCert, nreq, sdVars>>

\* Accept fails for a reason of the transport while the server is not
\* shutting down: Serve returns that error.
AcceptFail(t) ==
    /\ Alive
    /\ Listening(t)
    /\ ~inShutdown
    /\ TaskEnd(t, TransportError, "closed")
    /\ UNCHANGED <<cfgVars, srvVars, usedCert, nreq, sdVars>>

\* Accept fails because Shutdown closed the listener: ErrServerClosed.
AcceptClosed(t) ==
    /\ Alive
    /\ pc[t] = "accepting"
    /\ inShutdown
    /\ TaskEnd(t, ErrServerClosed, "closed")
    /\ UNCHANGED <<cfgVars, srvVars, usedCert, nreq, sdVars>>
\* ---- requests ---------------------------------------------------------------

\* RouterAuthorizationCheck.Check: a denied request is answered 401 and the
\* gin context is aborted; an allowed one is left to go on.
CheckAborts(allow) == ~allow

\* The handlers gin runs for a request: the group's chain for a registered
\* route of the data-repository group, none for any other path (404).
RouteChain(matched) == IF matched THEN router ELSE <<>>

NewReq(matched, allow) ==
    [matched |-> matched, allow |-> allow, idx |-> 1, running |-> FALSE,
     authDone |-> FALSE, calls |-> 0,
     status |-> IF matched THEN 0 ELSE 404]

\* The requests that arrive: for a registered route of the group, allowed or
\* denied by the authorization check; or for a path that no route matches
\* (no authorization decision is ever taken for it).
ReqKinds ==
    {[matched |-> TRUE, allow |-> TRUE], [matched |-> TRUE, allow |-> FALSE],
     [matched |-> FALSE, allow |-> FALSE]}

Active(c) == conn[c] = "active"
NoneActive == \A c \in Conns : ~Active(c)
ChainDone(c) == Active(c) /\ ~req[c].running /\ req[c].idx > Len(RouteChain(req[c].matched))

\* A new connection is accepted by the accept loop and its first request read.
AcceptConn(t, c, matched, allow) ==
    /\ Alive
    /\ Listening(t)
    /\ nreq < MaxRequests
    /\ conn[c] = "closed"
    /\ \A d \in Conns : d < c => conn[d] # "closed"
    /\ conn' = [conn EXCEPT ![c] = "active"]
    /\ req' = [req EXCEPT ![c] = NewReq(matched, allow)]
    /\ nreq' = nreq + 1
    /\ UNCHANGED <<cfgVars, srvVars, taskVars, sdVars, panicked>>

\* A further request arrives on a kept-alive connection.
NextRequest(c, matched, allow) ==
    /\ Alive
    /\ conn[c] = "idle"
    /\ nreq < MaxRequests
    /\ conn' = [conn EXCEPT ![c] = "active"]
    /\ req' = [req EXCEPT ![c] = NewReq(matched, allow)]
    /\ nreq' = nreq + 1
    /\ UNCHANGED <<cfgVars, srvVars, taskVars, sdVars, panicked>>

\* newRouter, lines 101-103: the middleware hands Check the gin.Context of
\* the request it runs for, so a denial aborts that request alone.
AbortScopeShared(c) == Conns
AbortScope(c) == {c}

\* A request aborted by a denial: answered 401, the rest of its chain skipped.
Aborted(r) ==
    [r EXCEPT !.status = 401, !.idx = Len(RouteChain(r.matched)) + 1]

\* gin runs the next handler of the chain: the authorization middleware
\* installed by dataRepositoryGroup.Use, or the route's handler.
ChainStep(c) ==
    /\ Alive
    /\ Active(c)
    /\ ~req[c].running
    /\ req[c].idx <= Len(RouteChain(req[c].matched))
    /\ LET r == req[c]
           chain == RouteChain(r.matched)
           h == chain[r.idx]
       IN  IF h = "auth"
           THEN IF CheckAborts(r.allow)
                THEN req' = [d \in Conns |->
                        IF d = c THEN Aborted([r EXCEPT !.authDone = TRUE])
                        ELSE IF d \in AbortScope(c) /\ Active(d)
                        THEN Aborted(req[d])
                        ELSE req[d]]
                ELSE req' = [req EXCEPT ![c] =
                        [r EXCEPT !.authDone = TRUE, !.idx = r.idx + 1]]
           ELSE req' = [req EXCEPT ![c] =
                    [r EXCEPT !.running = TRUE, !.calls = r.calls + 1]]
    /\ UNCHANGED <<cfgVars, srvVars, taskVars, conn, nreq, sdVars, panicked>>

\* The domain handler returns, having written its response.
HandlerReturn(c) ==
    /\ Alive
    /\ Active(c)
    /\ req[c].running
    /\ req' = [req EXCEPT ![c] =
                  [req[c] EXCEPT !.running = FALSE, !.status = 200,
                                 !.idx = req[c].idx + 1]]
    /\ UNCHANGED <<cfgVars, srvVars, taskVars, conn, nreq, sdVars, panicked>>

\* The response is out: the connection is kept alive, or closed when the
\* server is shutting down.
Finish(c) ==
    /\ Alive
    /\ ChainDone(c)
    /\ conn' = [conn EXCEPT ![c] = IF inShutdown THEN "closed" ELSE "idle"]
    /\ req' = [req EXCEPT ![c] = NoReq]
    /\ UNCHANGED <<cfgVars, srvVars, taskVars, nreq, sdVars, panicked>>

\* ---- shutdown ---------------------------------------------------------------

\* shutdownHttpServer, lines 77-79: the nil-handle early return.
shutdownSkips(h) == h = "nil"

\* shutdownHttpServer, lines 85-87: an error of Shutdown is logged with
\* Errorf, and is never escalated.
shutdownLogsAlways(err) == TRUE
shutdownLogs(err) == err # "nil"
shutdownPanicsOnError(err) == err # "nil"
shutdownPanics(err) == FALSE

\* shutdownHttpServer, lines 84-87: the result of httpServer.Shutdown is
\* tested once; there is no loop that would call it again.
shutdownRetriesOnce(err) == err = DeadlineExceeded /\ sdAttempts = sdCalls
shutdownRetries(err) == FALSE

\* shutdownHttpServer, line 84: httpServer.Shutdown closes the idle
\* connections and leaves the active ones open, on every call alike (a
\* repeated call does not turn into httpServer.Close).
KeepIdleConns(cs) == cs
ForceCloseOnRepeat(cs) ==
    [c \in Conns |-> IF cs[c] = "idle" \/ inShutdown THEN "closed" ELSE cs[c]]
ShutdownConns(cs) ==
    [c \in Conns |-> IF cs[c] = "idle" THEN "closed" ELSE cs[c]]

\* The lifecycle state of the handle.
Started == \E t \in Tasks : Spawned(t)
Serving == ~inShutdown /\ \E t \in Tasks : Listening(t)
ShuttingDown == inShutdown /\ sdReturns = 0
Closed == inShutdown /\ sdReturns > 0

\* shutdownHttpServer returns with the result err of httpServer.Shutdown.
ShutdownReturn(err, last) ==
    /\ sd' = "idle"
    /\ sdReturns' = sdReturns + 1
    /\ sdElapsed' = 0
    /\ sdLast' = [last EXCEPT !.err = err, !.elapsed = sdElapsed,
                              !.held = ~NoneActive,
                              !.logged = shutdownLogs(err)]
    /\ sdErrLogged' = IF shutdownLogs(err) THEN sdErrLogged + 1 ELSE sdErrLogged
    /\ panicked' = IF shutdownPanics(err) THEN "Shutdown" ELSE panicked

\* Shutdown is called: the nil test, then httpServer.Shutdown(shutdownCtx)
\* marks the server, closes the tracked listeners and the idle connections,
\* and returns at once when no connection is active.
Shutdown ==
    /\ phase = "constructed"
    /\ Alive
    /\ sd = "idle"
    /\ sdCalls < MaxShutdowns
    /\ sdCalls' = sdCalls + 1
    /\ LET last == [NoShutdown EXCEPT !.inflight = ~NoneActive,
                                      !.serving = Serving]
       IN  IF shutdownSkips(httpServer)
           THEN /\ sd' = "idle"
                /\ sdReturns' = sdReturns + 1
                /\ sdLast' = [last EXCEPT !.err = "skipped"]
                /\ UNCHANGED <<inShutdown, ln, conn, sdErrLogged, sdElapsed,
                               sdAttempts, panicked>>
           ELSE /\ inShutdown' = TRUE
                /\ sdAttempts' = sdAttempts + 1
                /\ ln' = [t \in Tasks |->
                             IF ln[t] = "tracked" THEN "closed" ELSE ln[t]]
                /\ conn' = ShutdownConns(conn)
                /\ IF NoneActive
                   THEN ShutdownReturn("nil", last)
                   ELSE /\ sd' = "waiting"
                        /\ sdLast' = last
                        /\ UNCHANGED <<sdReturns, sdElapsed, sdErrLogged,
                                       panicked>>
    /\ UNCHANGED <<cfgVars, phase, httpServer, router, pc, taskErr, usedCert,
                   wg, req, nreq>>

\* Time passes while Shutdown waits, up to the deadline of shutdownCtx.
Tick ==
    /\ Alive
    /\ sd = "waiting"
    /\ sdElapsed < shutdownTimeout
    /\ sdElapsed' = sdElapsed + 1
    /\ UNCHANGED <<cfgVars, srvVars, taskVars, connVars, sd, sdCalls,
                   sdReturns, sdAttempts, sdErrLogged, sdLast, panicked>>

\* The poll of Shutdown finds every connection gone: it returns nil.
ShutdownDrained ==
    /\ Alive
    /\ sd = "waiting"
    /\ NoneActive
    /\ ShutdownReturn("nil", sdLast)
    /\ UNCHANGED <<cfgVars, srvVars, taskVars, connVars, sdCalls, sdAttempts>>

\* shutdownCtx expires first: Shutdown returns the context's error and
\* leaves the active connections as they are.
ShutdownDeadline ==
    /\ Alive
    /\ sd = "waiting"
    /\ sdElapsed = shutdownTimeout
    /\ IF shutdownRetries(DeadlineExceeded)
       THEN /\ sdAttempts' = sdAttempts + 1
            /\ sdElapsed' = 0
            /\ UNCHANGED <<sd, sdReturns, sdErrLogged, sdLast, panicked>>
       ELSE /\ ShutdownReturn(DeadlineExceeded, sdLast)
            /\ UNCHANGED sdAttempts
    /\ UNCHANGED <<cfgVars, srvVars, taskVars, connVars, sdCalls>>

\* ---- specification ------------------------------------------------------------

Init ==
    /\ scheme \in Schemes
    /\ tlsPem \in CfgPaths
    /\ tlsKey \in CfgPaths
    \* settings that nothing reads are fixed
    /\ scheme # "https" => tlsPem = "" /\ tlsKey = ""
    /\ phase = "new"
    /\ httpServer = "nil"
    /\ router = <<>>
    /\ inShutdown = FALSE
    /\ pc = [t \in Tasks |-> "unspawned"]
    /\ ln = [t \in Tasks |-> "none"]
    /\ taskErr = [t \in Tasks |-> "none"]
    /\ usedCert = <<>>
    /\ wg = 0
    /\ panicked = "none"
    /\ conn = [c \in Conns |-> "closed"]
    /\ req = [c \in Conns |-> NoReq]
    /\ nreq = 0
    /\ sd = "idle"
    /\ sdCalls = 0
    /\ sdReturns = 0
    /\ sdAttempts = 0
    /\ sdErrLogged = 0
    /\ sdElapsed = 0
    /\ sdLast = NoShutdown

Next ==
    \/ \E path \in {"", "keylog"}, ok \in BOOLEAN : NewServer(path, ok)
    \/ Run
    \/ \E t \in Tasks, ok \in BOOLEAN : ServeEnter(t, ok)
    \/ \E t \in Tasks, ok \in BOOLEAN : ServeSetup(t, ok)
    \/ \E t \in Tasks : AcceptFail(t)
    \/ \E t \in Tasks : AcceptClosed(t)
    \/ \E t \in Tasks, c \in Conns, k \in ReqKinds :
           AcceptConn(t, c, k.matched, k.allow)
    \/ \E c \in Conns, k \in ReqKinds : NextRequest(c, k.matched, k.allow)
    \/ \E c \in Conns : ChainStep(c)
    \/ \E c \in Conns : HandlerReturn(c)
    \/ \E c \in Conns : Finish(c)
    \/ Shutdown
    \/ Tick
    \/ ShutdownDrained
    \/ ShutdownDeadline

Spec == Init /\ [][Next]_vars

\* Time passes and the timer of shutdownCtx fires; the poll of
\* httpServer.Shutdown runs on its ticker.
\* The configured TLS paths only feed usedCert: they are left at their
\* defaults here.  The plain-HTTP server takes the steps of the TLS one less
\* the key-pair load, so the TLS server stands for both.
FairInit == Init /\ scheme # "http" /\ tlsPem = "" /\ tlsKey = ""

FairSpec ==
    /\ FairInit
    /\ [][Next]_vars
    /\ WF_vars(Tick)
    /\ WF_vars(ShutdownDeadline)
    /\ WF_vars(ShutdownDrained)

\* ---- claims -----------------------------------------------------------------

ValidScheme == scheme \in {"http", "https"}

C2_DenyNeverReachesHandler ==
    \A c \in Conns :
        Active(c) /\ req[c].matched =>
            /\ req[c].calls > 0 => req[c].authDone /\ req[c].allow
            /\ req[c].running => req[c].authDone
            /\ ~req[c].allow =>
                /\ req[c].calls = 0
                /\ ~req[c].running
                /\ req[c].authDone => req[c].status = 401 /\ ChainDone(c)
                /\ ChainDone(c) => req[c].authDone

C2_Witness ==
    \E c \in Conns :
        /\ ChainDone(c)
        /\ req[c].matched
        /\ ~req[c].allow
        /\ req[c].authDone
        /\ req[c].status = 401
        /\ req[c].calls = 0

\* C3: for every request that matches a registered route and is allowed by
\* the authorization check, the domain handler is invoked exactly once: never
\* twice, and not zero times once the chain has run to its end.
C3_AllowedHandlerOnce ==
    \A c \in Conns :
        Active(c) /\ req[c].matched /\ req[c].allow =>
            /\ req[c].calls <= 1
            /\ req[c].running => req[c].calls = 1
            /\ ChainDone(c) => req[c].calls = 1 /\ req[c].status = 200

C3_Witness ==
    \E c \in Conns :
        /\ ChainDone(c)
        /\ req[c].matched
        /\ req[c].allow
        /\ req[c].authDone
        /\ req[c].calls = 1

\* C4: when Shutdown returns while a request is still held open, the
\* deadline was hit (the call waited the whole shutdownTimeout and got the
\* context's error), the timeout was logged and nothing more (Shutdown does
\* not panic), the call has returned and the server is Closed.
C4_HeldRequestTimesOut ==
    sdReturns > 0 /\ sd = "idle" /\ sdLast.held =>
        /\ sdLast.err = DeadlineExceeded
        /\ sdLast.elapsed = shutdownTimeout
        /\ sdLast.logged
        /\ sdErrLogged >= 1
        /\ panicked # "Shutdown"
        /\ Closed

C4_Witness ==
    /\ sd = "idle"
    /\ sdLast.serving
    /\ sdLast.inflight
    /\ sdLast.held
    /\ sdLast.err = DeadlineExceeded
    /\ sdErrLogged = 1
    /\ Closed
    /\ Alive

\* C5 as stated: once a Shutdown whose deadline elapsed has returned, no
\* connection of the server is still open and no request is still handled.
C5_ForciblyClosed ==
    sdReturns > 0 /\ sd = "idle" /\ sdLast.err = DeadlineExceeded =>
        \A c \in Conns : conn[c] = "closed"

\* C6: Run followed by Shutdown with no request served, on a server with a
\* valid scheme whose environment raises no bind, certificate or transport
\* fault, completes cleanly however the Shutdown call interleaves with the
\* accept-loop task (also when Shutdown runs before the task listens): no
\* panic, the server is Closed, the task has exited with ErrServerClosed or
\* is about to (it has a step, and every step it can take ends it).
NoFault ==
    \A t \in Tasks :
        taskErr[t] \notin {BindError, TLSFileError, TransportError}

OneRun == Spawned(1) /\ \A t \in Tasks : Spawned(t) => t = 1

TaskStep(t) ==
    \/ \E ok \in BOOLEAN : ServeEnter(t, ok)
    \/ \E ok \in BOOLEAN : ServeSetup(t, ok)
    \/ AcceptClosed(t)

C6_Case == ValidScheme /\ OneRun /\ nreq = 0 /\ sdReturns > 0 /\ NoFault

C6_StartThenShutdownClean ==
    C6_Case =>
        /\ Alive
        /\ Closed
        /\ pc[1] # "panicked"
        /\ Ended(1) => taskErr[1] = ErrServerClosed
        /\ ~Ended(1) =>
            /\ ENABLED TaskStep(1)
            /\ ~ENABLED (TaskStep(1) /\ ~Ended(1)')

\* the Shutdown call ran before the task had begun to listen
C6_Witness ==
    /\ C6_Case
    /\ pc[1] = "exited"
    /\ ln[1] = "none"
    /\ taskErr[1] = ErrServerClosed
    /\ wg = 0

C8_IdleShutdownPrompt ==
    sdCalls > 0 /\ sdLast.serving /\ ~sdLast.inflight =>
        /\ sd = "idle"
        /\ sdLast.err = "nil"
        /\ sdLast.elapsed < shutdownTimeout
        /\ ~sdLast.logged
        /\ Closed

C8_Witness ==
    /\ sdCalls = 1
    /\ sdLast.serving
    /\ ~sdLast.inflight
    /\ sdLast.err = "nil"
    /\ sdErrLogged = 0
    /\ Closed
    /\ \E c \in Conns : conn[c] = "closed" /\ nreq > 0

\* C9: the accept-loop task panics if and only if serve() ended with an error
\* other than ErrServerClosed: a bind, certificate, invalid-scheme or
\* transport error is always escalated; ErrServerClosed, which serve()
\* returns only once Shutdown was called, never is.
C9_EscalatesIffNotClosed ==
    /\ \A t \in Tasks :
        /\ Ended(t) => (pc[t] = "panicked" <=> taskErr[t] # ErrServerClosed)
        /\ Ended(t) <=> taskErr[t] # "none"
        /\ taskErr[t] \in {BindError, TLSFileError, InvalidScheme,
                           TransportError} => pc[t] = "panicked"
        /\ taskErr[t] = ErrServerClosed => inShutdown /\ pc[t] = "exited"
    /\ panicked = "AcceptLoop" <=> \E t \in Tasks : pc[t] = "panicked"

C9_Witness ==
    \E t, u \in Tasks :
        /\ pc[t] = "exited"
        /\ taskErr[t] = ErrServerClosed
        /\ pc[u] = "panicked"
        /\ taskErr[u] = TLSFileError

\* C10: Run does not wait for the accept loop, and the wait group counts
\* exactly the accept-loop tasks that Run has started and that have not
\* ended: Run adds one before it returns, the task takes one off when it
\* ends and only then, so the count is zero only if every task has ended.
Running == {t \in Tasks : Spawned(t) /\ ~Ended(t)}

C10_WaitGroupCountsTasks ==
    /\ wg = Cardinality(Running)
    /\ wg = 0 => \A t \in Tasks : Spawned(t) => Ended(t)

\* Run has returned (a second call was even made) while the first task is
\* still in its accept loop
C10_Witness ==
    /\ wg = 2
    /\ Listening(1)
    /\ pc[2] = "spawned"

\* C11: for scheme "https" the certificate path and the key path handed to
\* ListenAndServeTLS are resolved each on its own: an empty configured path
\* gives the fixed default, a non-empty one is used exactly as configured.
PastServeEnter(t) == Spawned(t) /\ pc[t] # "spawned"

C11_TlsPathsResolved ==
    /\ usedCert # <<>> =>
        /\ scheme = "https"
        /\ Len(usedCert) = 2
        /\ tlsPem = "" => usedCert[1] = "cert/udr.pem"
        /\ tlsPem # "" => usedCert[1] = tlsPem
        /\ tlsKey = "" => usedCert[2] = "cert/udr.key"
        /\ tlsKey # "" => usedCert[2] = tlsKey
    /\ \A t \in Tasks :
        scheme = "https" /\ PastServeEnter(t) => usedCert # <<>>

\* a default certificate path next to a configured key path
C11_Witness ==
    /\ scheme = "https"
    /\ tlsPem = ""
    /\ tlsKey = "cfg"
    /\ usedCert = <<"cert/udr.pem", "cfg">>
    /\ Listening(1)
\* C12 as stated: bind failures (address in use, permission denied, bad
\* certificate or key files) are raised by construction, so the accept loop
\* of a constructed server never fails for a bind reason.
BindReasons == {BindError, TLSFileError}

LifecycleRank ==
    IF Closed THEN 3
    ELSE IF ShuttingDown THEN 2
    ELSE IF Started THEN 1
    ELSE 0

OpenSockets == {t \in Tasks : ln[t] \in {"open", "tracked"}}
LiveConns == {c \in Conns : conn[c] # "closed"}

C13_LifecycleForward ==
    [][/\ LifecycleRank' >= LifecycleRank
       /\ Closed => Closed'
       /\ inShutdown =>
            /\ inShutdown'
            /\ nreq' = nreq
            /\ OpenSockets' \subseteq OpenSockets
            /\ \A t \in Tasks : ln'[t] = "tracked" => ln[t] = "tracked"
            /\ LiveConns' \subseteq LiveConns
            /\ \A c \in Conns : conn'[c] = "active" => conn[c] = "active"
      ]_vars

\* a Run after the server was Closed: its task ends without ever serving
C13_Witness ==
    /\ Closed
    /\ sdLast.serving
    /\ nreq > 0
    /\ pc[1] = "exited"
    /\ pc[2] = "exited"
    /\ ln[2] = "none"
    /\ sdCalls = 1
\* C14 as stated: at every moment at most one accept-loop task of the server
\* is running, whatever the sequence of Run calls, and a Run after the first
\* neither starts a second task nor ends in a fatal escalation.
C14_SingleAcceptLoopTask ==
    /\ Cardinality(Running) <= 1
    /\ \A t \in Tasks : t > 1 => pc[t] # "panicked"
\* C15: Shutdown always terminates: a pending call returns (unless the
\* process has ended), also when a request in flight never completes; it
\* returns nil after the drain or the context's error once the whole
\* shutdownTimeout has elapsed, and each call makes exactly one call of
\* httpServer.Shutdown (no retry).
C15_ShutdownTerminates ==
    /\ [](/\ sdAttempts = sdCalls
          /\ sdElapsed <= shutdownTimeout
          /\ sd = "idle" /\ sdCalls > 0 =>
                /\ sdReturns = sdCalls
                /\ sdLast.err \in {"nil", DeadlineExceeded}
                /\ sdLast.err = DeadlineExceeded =>
                       sdLast.elapsed = shutdownTimeout)
    /\ (sd = "waiting") ~> (sd = "idle" \/ ~Alive)

\* the call returned by the deadline, and the request is still not complete
C15_Witness ==
    /\ sd = "idle"
    /\ sdReturns = 1
    /\ sdAttempts = 1
    /\ sdLast.err = DeadlineExceeded
    /\ sdLast.elapsed = 2
    /\ \E c \in Conns : Active(c) /\ req[c].running
    /\ Alive
\* C16 as stated: Shutdown on a server that was never started is a no-op: it
\* raises no panic and leaves the lifecycle state unchanged (the handle is
\* not shut), so that a Run issued afterwards still brings the server to
\* Serving.
C16_ShutdownBeforeRunNoOp ==
    [][~Started /\ sdCalls' # sdCalls =>
          /\ panicked' = panicked
          /\ inShutdown' = inShutdown
          /\ LifecycleRank' = LifecycleRank]_vars

\* The authorization middleware of connection c denies its request in this
\* step.
DenialStep(c) ==
    /\ Active(c)
    /\ ~req[c].authDone
    /\ req'[c].authDone
    /\ req'[c].status = 401

\* The handler of d's request has not been reached yet.
HandlerPending(d) ==
    /\ Active(d)
    /\ req[d].matched
    /\ req[d].allow
    /\ req[d].calls = 0
    /\ ~ChainDone(d)

\* C17: a denial is contained in the request that was denied.  With several
\* requests in flight, the step that denies one of them changes no other
\* request and no other connection, leaves the server, its accept-loop tasks
\* and its shutdown state as they were and raises no panic; and an allowed
\* request whose handler is still to come can go on to have it invoked,
\* whatever was denied beside it.
C17_DenialContained ==
    /\ [](\A d \in Conns :
            Alive /\ HandlerPending(d) =>
                ENABLED (ChainStep(d) /\ req'[d].status # 401))
    /\ [][\A c \in Conns :
            DenialStep(c) =>
                /\ \A d \in Conns \ {c} :
                      req'[d] = req[d] /\ conn'[d] = conn[d]
                /\ UNCHANGED <<srvVars, taskVars, sdVars, panicked>>]_vars

\* One request was denied and answered 401 while the handler of another,
\* allowed one runs on a second connection.
C17_Witness ==
    \E c, d \in Conns :
        /\ c # d
        /\ ChainDone(c) /\ req[c].authDone /\ ~req[c].allow
        /\ req[c].status = 401
        /\ Active(d) /\ req[d].allow /\ req[d].running /\ req[d].calls = 1
        /\ Alive

\* C18: the wait group is released on every way out of the accept-loop
\* task, the panic included: the step in which a task ends, by return or by
\* panic, takes exactly one off the counter, so the counter is always the
\* number of tasks spawned less the number of tasks ended.
C18_WaitGroupReleasedOnEveryExit ==
    /\ [](wg = Cardinality({t \in Tasks : Spawned(t)})
                 - Cardinality({t \in Tasks : Ended(t)}))
    /\ [][\A t \in Tasks :
            ~Ended(t) /\ Ended(t)' => wg' = wg - 1]_vars

\* A task went out by panic and the counter is back at zero.
C18_Witness ==
    \E t \in Tasks :
        /\ pc[t] = "panicked"
        /\ taskErr[t] # ErrServerClosed
        /\ panicked = "AcceptLoop"
        /\ wg = 0

\* C19: NewServer never returns a server after a bind error: with the
\* handle nil the construction has panicked and neither Run nor Shutdown was
\* ever entered; a server that was returned has a handle, so no Shutdown call
\* takes the early return of the nil test.
C19_NoServerAfterBindError ==
    /\ phase = "constructed" => httpServer # "nil"
    /\ phase = "initPanic" <=> panicked = "NewServer"
    /\ phase = "initPanic" =>
          /\ httpServer = "nil"
          /\ sdCalls = 0
          /\ \A t \in Tasks : ~Spawned(t)
    /\ sdCalls > 0 => ~shutdownSkips(httpServer) /\ sdLast.err # "skipped"
    /\ sdAttempts = sdCalls

\* The bind failed, and the construction ended in the panic.
C19_Witness ==
    /\ phase = "initPanic"
    /\ httpServer = "nil"
    /\ panicked = "NewServer"
=============================================================================
